---- MODULE Spec2Model ----
(***************************************************************************)
(* InsightBoard frontend: the WebSocketManager singleton                   *)
(* (services/websocket.ts) and the Dashboard page's metric reconciliation  *)
(* (pages/Dashboard.tsx), as a state machine.                              *)
(*                                                                         *)
(* Nullable strings are tuples: <<>> is null, <<"">> the empty string,     *)
(* <<s>> the string s; a template literal is the tuple of its parts.       *)
(* A WebSocket object is a record of the browser's view of one transport   *)
(* connection; the manager's handlers are closures over the manager, so    *)
(* every handle ever created keeps delivering its events to the manager.   *)
(***************************************************************************)
EXTENDS Integers, Sequences, FiniteSets, TLC

VARIABLES
    ws,                 \* this.ws: 0 is null, else an index into sockets
    url,                \* this.url
    token,              \* this.token
    retries,            \* this.retries
    connectionState,    \* this.connectionState
    onMessageCallback,  \* this.onMessageCallback: 0 is null, else a consumer
    sockets,            \* every WebSocket object created so far
    timers,             \* delays of the pending setTimeout callbacks
    metrics,            \* Dashboard state: metrics
    metricsHistory,     \* Dashboard state: metricsHistory
    call,               \* history: the last public call made on the manager
    delays,             \* history: delays scheduled since the last connect()
    closures,           \* history: consecutive non-1000 closures handled
    registered,         \* history: argument of the last onMessage() call
    arrived,            \* history: parsed inbound events, in arrival order
    invoked,            \* history: consumer invocations, in order
    dropped,            \* history: for each payload that failed to parse,
                        \* the number of events parsed before it
    applied,            \* history: every point put into each series' history
    limits,             \* the bounds of the run
    staleTimers,        \* history: pending timers older than the last call
                        \* of connect()
    exhausted,          \* history: a closure found the retry budget used up
    selectedDashboardId, \* Dashboard state: 0 is null
    loadingMetrics,     \* Dashboard state
    metricsError,       \* Dashboard state
    fetches,            \* the dashboardId of each getDashboardMetrics call
                        \* awaiting its response
    effectDeps,         \* [selectedDashboardId, token] of the last effect run
    effectPc,           \* position inside the running WebSocket effect
    clock,              \* number of metric updates received so far
    authToken,          \* AuthProvider state: token
    user,               \* AuthProvider state: user
    storage,            \* localStorage item 'authToken'
    authLoading,        \* AuthProvider state: loading
    authError,          \* AuthProvider state: error
    logins,             \* the register and login calls awaiting a response
    authChecked,        \* <<token>> of the last run of initializeAuth, <<>>
                        \* before the first
    cleared             \* history: the number of entries the last change of
                        \* the selection removed from the table

mgrVars  == <<ws, url, token, retries, connectionState, onMessageCallback>>
envVars  == <<sockets, timers>>
pageVars == <<selectedDashboardId, loadingMetrics, metricsError, fetches,
              cleared>>
flowVars == <<effectPc, effectDeps, clock>>
authVars == <<authToken, user, storage, authLoading, authError, logins,
              authChecked>>
dashVars == <<metrics, metricsHistory, pageVars, authVars>>
connHist == <<call, delays, closures, staleTimers, exhausted>>
msgHist  == <<registered, arrived, invoked, dropped>>
vars     == <<ws, url, token, retries, connectionState, onMessageCallback,
              sockets, timers, metrics, metricsHistory, call, delays,
              closures, registered, arrived, invoked, dropped, applied,
              limits,
              staleTimers, exhausted, selectedDashboardId, loadingMetrics,
              metricsError, fetches, effectDeps, effectPc, clock, authToken,
              user, storage, logins, authChecked, cleared, authLoading,
              authError>>

----------------------------------------------------------------------------
(* Program constants *)

MAX_RETRIES == 5
RETRY_INTERVAL_MS == 1000
NORMAL_CLOSURE == 1000
HISTORY_LIMIT == 100

(* Bounds of the model *)

MaxSockets == 2
MaxMessages == 1
MaxSocketsSession == 7
MaxMessagesSession == 3
MaxApplied == 102
MaxOther == 2
MaxStride == 3
\* selections of a dashboard, metric updates and requests awaiting their
\* response in a run of the Dashboard page
MaxViews == 1
MaxUpdates == 2
MaxPending == 2
\* sockets of a run with overlapping sessions, and the number of sockets
\* from which on connect() is not called any more
MaxSocketsOverlap == 7
MaxCalls == 2
\* register and login calls awaiting a response at the same time
MaxLogins == 2
\* sockets of a run in which connect() is called at any moment
MaxSocketsRescope == 3

DashboardIds == {1, 2}
Tokens == {<<"">>, <<"jwt">>}
Consumers == {1, 2}
CloseCodes == {NORMAL_CLOSURE, 1006}
Payloads == {"{bad", "m1", "m2"}

----------------------------------------------------------------------------
(* Strings *)

Null == <<>>

\* !s for a nullable string: null and "" are falsy
Falsy(s) == s = Null \/ s = <<"">>

\* `ws://localhost:8000/api/v1/ws/dashboard/${dashboardId}`
UrlOf(dashboardId) == <<"ws://localhost:8000/api/v1/ws/dashboard/", dashboardId>>

\* `${this.url}?token=${this.token}`
FullUrl(u, t) == u \o <<"?token=">> \o t

RECURSIVE Pow2(_)
Pow2(n) == IF n = 0 THEN 1 ELSE 2 * Pow2(n - 1)

\* faulty variant: the delay is capped at 30 seconds
BackoffDelayCapped(r) ==
    IF Pow2(r) * RETRY_INTERVAL_MS > 30 * RETRY_INTERVAL_MS
    THEN 30 * RETRY_INTERVAL_MS
    ELSE Pow2(r) * RETRY_INTERVAL_MS

\* Math.pow(2, this.retries) * RETRY_INTERVAL_MS
BackoffDelay(r) == Pow2(r) * RETRY_INTERVAL_MS

----------------------------------------------------------------------------
(* The browser's WebSocket object, as far as the manager can observe it *)

\* new WebSocket(fullUrl)
NewWebSocket(fullUrl) ==
    [url |-> fullUrl, readyState |-> "CONNECTING", pending |-> "none",
     code |-> 0]

\* WebSocket.close(): nothing on a closing or closed socket; a socket that
\* is still connecting fails (error, then close 1006); an open one starts
\* the closing handshake
CloseSocket(s) ==
    CASE s.readyState = "CONNECTING" ->
             [s EXCEPT !.readyState = "CLOSING", !.pending = "fail"]
      [] s.readyState = "OPEN" -> [s EXCEPT !.readyState = "CLOSING"]
      [] OTHER -> s

\* the browser fires error and close in one task: between the two no other
\* callback runs
Quiet == \A h \in 1..Len(sockets) : sockets[h].pending # "errorFired"

OpenSockets == {h \in 1..Len(sockets) : sockets[h].readyState = "OPEN"}

\* JSON.parse(event.data) succeeds
Parses(data) == data # "{bad"

\* JSON.parse(event.data)
JSONparse(data) ==
    CASE data = "m1" -> [type |-> "metric_update", data |-> 1]
      [] data = "m2" -> [type |-> "metric_update", data |-> 2]

----------------------------------------------------------------------------
(* WebSocketManager *)

\* faulty variant: connect() without its early return
AlreadyConnectedNever == FALSE

\* connect(): this.ws && this.ws.readyState === WebSocket.OPEN
AlreadyConnected == ws # 0 /\ sockets[ws].readyState = "OPEN"

\* faulty variant: the closure code is not looked at
ShouldRetryAnyCode(code, r) == r < MAX_RETRIES

\* faulty variant: the budget ends one closure early
ShouldRetryOneLess(code, r) ==
    code # NORMAL_CLOSURE /\ r + 1 < MAX_RETRIES

\* faulty variant: every closure with a code other than 1000 is retried
ShouldRetryUnbounded(code, r) == code # NORMAL_CLOSURE

\* faulty variant: the budget allows one closure more
ShouldRetryOneMore(code, r) == code # NORMAL_CLOSURE /\ r <= MAX_RETRIES

\* onclose: event.code !== 1000 && this.retries < MAX_RETRIES
ShouldRetry(code, r) == code # NORMAL_CLOSURE /\ r < MAX_RETRIES

\* faulty variant: the first registration is kept
CallbackSlotKeepFirst(old, callback) == IF old = 0 THEN callback ELSE old

\* onMessage(): the value the single callback slot takes
CallbackSlot(old, callback) == callback

\* onmessage: the consumer invocations after one parsed message
Deliver(cb, message, log) ==
    IF cb # 0 THEN Append(log, [to |-> cb, message |-> message]) ELSE log

\* _doConnect() with this.url = u, this.token = t and connectionState = st
doConnect(u, t, st) ==
    IF Falsy(u) \/ Falsy(t)
    THEN /\ connectionState' = "error"
         /\ UNCHANGED <<ws, sockets>>
    ELSE /\ Len(sockets) < limits.sockets
         /\ sockets' = Append(sockets, NewWebSocket(FullUrl(u, t)))
         /\ ws' = Len(sockets) + 1
         /\ connectionState' = st

connect(dashboardId, tok) ==
    /\ Quiet
    /\ call' = [op |-> "connect", id |-> dashboardId, tok |-> tok,
                early |-> AlreadyConnected]
    /\ IF AlreadyConnected
       THEN UNCHANGED <<mgrVars, envVars, delays, closures>>
       ELSE /\ url' = UrlOf(dashboardId)
            /\ token' = tok
            /\ retries' = 0
            /\ doConnect(UrlOf(dashboardId), tok, "connecting")
            /\ delays' = <<>>
            /\ closures' = 0
            /\ UNCHANGED <<onMessageCallback, timers>>
    /\ staleTimers' = Len(timers)
    /\ exhausted' = FALSE
    /\ UNCHANGED <<dashVars, msgHist, applied, limits>>

disconnect ==
    /\ Quiet
    /\ call' = [op |-> "disconnect", id |-> 0, tok |-> Null, early |-> FALSE]
    /\ IF ws # 0
       THEN /\ retries' = MAX_RETRIES
            /\ sockets' = [sockets EXCEPT ![ws] = CloseSocket(@)]
            /\ ws' = 0
       ELSE UNCHANGED <<retries, sockets, ws>>
    /\ connectionState' = "disconnected"
    /\ UNCHANGED <<url, token, onMessageCallback, timers, delays, closures,
                   staleTimers, exhausted, dashVars, msgHist, applied, limits>>

onMessage(callback) ==
    /\ Quiet
    /\ onMessageCallback' = CallbackSlot(onMessageCallback, callback)
    /\ registered' = callback
    /\ UNCHANGED <<ws, url, token, retries, connectionState, envVars,
                   dashVars, connHist, arrived, invoked, dropped, applied,
                   limits>>

\* faulty variant: onopen leaves retries as it is
onopenKeepRetries(h) ==
    /\ Quiet
    /\ h \in 1..Len(sockets)
    /\ sockets[h].readyState = "CONNECTING"
    /\ sockets' = [sockets EXCEPT ![h].readyState = "OPEN"]
    /\ connectionState' = "connected"
    /\ closures' = 0
    /\ delays' = <<>>
    /\ UNCHANGED <<ws, url, token, retries, onMessageCallback, timers, call,
                   staleTimers, exhausted, dashVars, msgHist, applied, limits>>

\* this.ws.onopen of socket h
onopen(h) ==
    /\ Quiet
    /\ h \in 1..Len(sockets)
    /\ sockets[h].readyState = "CONNECTING"
    /\ sockets' = [sockets EXCEPT ![h].readyState = "OPEN"]
    /\ connectionState' = "connected"
    /\ retries' = 0
    /\ closures' = 0
    /\ delays' = <<>>
    /\ UNCHANGED <<ws, url, token, onMessageCallback, timers, call,
                   staleTimers, exhausted, dashVars, msgHist, applied, limits>>

\* faulty variant: a payload that fails to parse is treated as a transport
\* failure
onmessageFailOnParseError(h, data) ==
    /\ Quiet
    /\ h \in 1..Len(sockets)
    /\ sockets[h].readyState = "OPEN"
    /\ Len(arrived) + Len(dropped) < limits.messages
    /\ IF Parses(data)
       THEN /\ arrived' = Append(arrived,
                            [message |-> JSONparse(data), reg |-> registered])
            /\ invoked' = Deliver(onMessageCallback, JSONparse(data), invoked)
            /\ UNCHANGED <<dropped, connectionState>>
       ELSE /\ dropped' = Append(dropped, Len(arrived))
            /\ connectionState' = "error"
            /\ UNCHANGED <<arrived, invoked>>
    /\ UNCHANGED <<ws, url, token, retries, onMessageCallback, envVars,
                   dashVars, connHist, registered, applied, limits>>

\* this.ws.onmessage of socket h: the browser delivers messages of open
\* sockets only
onmessage(h, data) ==
    /\ Quiet
    /\ h \in 1..Len(sockets)
    /\ sockets[h].readyState = "OPEN"
    /\ Len(arrived) + Len(dropped) < limits.messages
    /\ IF Parses(data)
       THEN /\ arrived' = Append(arrived,
                            [message |-> JSONparse(data), reg |-> registered])
            /\ invoked' = Deliver(onMessageCallback, JSONparse(data), invoked)
            /\ UNCHANGED dropped
       ELSE /\ dropped' = Append(dropped, Len(arrived))
            /\ UNCHANGED <<arrived, invoked>>
    /\ UNCHANGED <<mgrVars, envVars, dashVars, connHist, registered, applied,
                   limits>>

\* faulty variant: the error event itself schedules a reconnect
onerrorRetries(h) ==
    /\ Quiet
    /\ h \in 1..Len(sockets)
    /\ \/ sockets[h].readyState \in {"CONNECTING", "OPEN"}
       \/ sockets[h].readyState = "CLOSING" /\ sockets[h].pending = "fail"
    /\ sockets' = [sockets EXCEPT ![h].readyState = "CLOSED",
                                  ![h].pending = "errorFired"]
    /\ connectionState' = "error"
    /\ timers' = Append(timers, BackoffDelay(retries + 1))
    /\ UNCHANGED <<ws, url, token, retries, onMessageCallback,
                   dashVars, connHist, msgHist, applied, limits>>

\* this.ws.onerror of socket h: the connection failed
onerror(h) ==
    /\ Quiet
    /\ h \in 1..Len(sockets)
    /\ \/ sockets[h].readyState \in {"CONNECTING", "OPEN"}
       \/ sockets[h].readyState = "CLOSING" /\ sockets[h].pending = "fail"
    /\ sockets' = [sockets EXCEPT ![h].readyState = "CLOSED",
                                  ![h].pending = "errorFired"]
    /\ connectionState' = "error"
    /\ UNCHANGED <<ws, url, token, retries, onMessageCallback, timers,
                   dashVars, connHist, msgHist, applied, limits>>

\* this.ws.onclose of socket h with event.code = code
onclose(h, code) ==
    /\ h \in 1..Len(sockets)
    /\ \/ sockets[h].pending = "errorFired" /\ code # NORMAL_CLOSURE
       \/ /\ Quiet
          /\ sockets[h].readyState \in {"OPEN", "CLOSING"}
          /\ sockets[h].pending = "none"
    /\ sockets' = [sockets EXCEPT ![h].readyState = "CLOSED",
                                  ![h].pending = "none",
                                  ![h].code = code]
    /\ IF ShouldRetry(code, retries)
       THEN /\ retries' = retries + 1
            /\ timers' = Append(timers, BackoffDelay(retries + 1))
            /\ delays' = IF limits.track
                         THEN Append(delays, BackoffDelay(retries + 1))
                         ELSE delays
            /\ connectionState' = "connecting"
       ELSE /\ connectionState' = "disconnected"
            /\ UNCHANGED <<retries, timers, delays>>
    /\ closures' = IF limits.track /\ code # NORMAL_CLOSURE
                   THEN closures + 1
                   ELSE 0
    /\ exhausted' = (exhausted \/
                        (code # NORMAL_CLOSURE /\ ~ShouldRetry(code, retries)))
    /\ UNCHANGED <<ws, url, token, onMessageCallback, call, staleTimers,
                   dashVars, msgHist, applied, limits>>

\* the setTimeout callback () => this._doConnect() of pending timer i
timerFires(i) ==
    /\ Quiet
    /\ i \in 1..Len(timers)
    /\ timers' = SubSeq(timers, 1, i - 1) \o SubSeq(timers, i + 1, Len(timers))
    /\ doConnect(url, token, connectionState)
    /\ staleTimers' = IF i <= staleTimers THEN staleTimers - 1
                                          ELSE staleTimers
    /\ UNCHANGED <<url, token, retries, onMessageCallback, dashVars, call,
                   delays, closures, exhausted, msgHist, applied, limits>>

----------------------------------------------------------------------------
(* Dashboard: the consumer registered with the manager *)

\* {} as a Record<string, MetricDataPoint[]>
EmptyRecord == [n \in {} |-> <<>>]

Absent == <<>>

\* faulty variant: the first n entries are kept
SliceFirst(seq, n) == SubSeq(seq, 1, IF Len(seq) <= n THEN Len(seq) ELSE n)

\* seq.slice(-n)
SliceLast(seq, n) ==
    IF Len(seq) <= n THEN seq ELSE SubSeq(seq, Len(seq) - n + 1, Len(seq))

\* prevMetrics.findIndex(m => m.name === name), 0 for -1
FindIndex(prevMetrics, name) ==
    LET found == {i \in 1..Len(prevMetrics) : prevMetrics[i].name = name}
    IN  IF found = {} THEN 0 ELSE CHOOSE i \in found : \A j \in found : i <= j

\* prevHistory[name] || []
HistoryOf(prevHistory, name) ==
    IF name \in DOMAIN prevHistory THEN prevHistory[name] ELSE <<>>

\* faulty variant: an update leaves the previousValue of the entry as it was
UpdateMetricsKeepPrevious(prevMetrics, updatedMetric) ==
    LET existingIndex == FindIndex(prevMetrics, updatedMetric.name)
    IN  IF existingIndex # 0
        THEN [prevMetrics EXCEPT ![existingIndex] =
                 [id |-> updatedMetric.id,
                  name |-> updatedMetric.name,
                  value |-> updatedMetric.value,
                  created_at |-> updatedMetric.created_at,
                  dashboard_id |-> updatedMetric.dashboard_id,
                  previousValue |-> prevMetrics[existingIndex].previousValue]]
        ELSE Append(prevMetrics,
                 [id |-> updatedMetric.id,
                  name |-> updatedMetric.name,
                  value |-> updatedMetric.value,
                  created_at |-> updatedMetric.created_at,
                  dashboard_id |-> updatedMetric.dashboard_id,
                  previousValue |-> Absent])

\* the setMetrics updater
UpdateMetrics(prevMetrics, updatedMetric) ==
    LET existingIndex == FindIndex(prevMetrics, updatedMetric.name)
    IN  IF existingIndex # 0
        THEN [prevMetrics EXCEPT ![existingIndex] =
                 [id |-> updatedMetric.id,
                  name |-> updatedMetric.name,
                  value |-> updatedMetric.value,
                  created_at |-> updatedMetric.created_at,
                  dashboard_id |-> updatedMetric.dashboard_id,
                  previousValue |-> <<prevMetrics[existingIndex].value>>]]
        ELSE Append(prevMetrics,
                 [id |-> updatedMetric.id,
                  name |-> updatedMetric.name,
                  value |-> updatedMetric.value,
                  created_at |-> updatedMetric.created_at,
                  dashboard_id |-> updatedMetric.dashboard_id,
                  previousValue |-> Absent])

\* the setMetricsHistory updater
UpdateHistory(prevHistory, updatedMetric) ==
    [n \in DOMAIN prevHistory \cup {updatedMetric.name} |->
        IF n = updatedMetric.name
        THEN SliceLast(Append(HistoryOf(prevHistory, n),
                              [timestamp |-> updatedMetric.created_at,
                               value |-> updatedMetric.value]),
                       HISTORY_LIMIT)
        ELSE prevHistory[n]]

\* the callback given to webSocketManager.onMessage, for a message of type
\* 'metric_update' with data updatedMetric
metricUpdate(updatedMetric) ==
    /\ metrics' = UpdateMetrics(metrics, updatedMetric)
    /\ metricsHistory' = UpdateHistory(metricsHistory, updatedMetric)
    /\ applied' = [n \in DOMAIN applied \cup {updatedMetric.name} |->
                     IF n = updatedMetric.name
                     THEN Append(HistoryOf(applied, n),
                                 [timestamp |-> updatedMetric.created_at,
                                  value |-> updatedMetric.value])
                     ELSE applied[n]]
    /\ UNCHANGED <<mgrVars, envVars, connHist, msgHist, limits, pageVars,
                   authVars>>

\* a Metric of the API as a MetricState: it has no previousValue
AsState(metric) ==
    [id |-> metric.id, name |-> metric.name, value |-> metric.value,
     created_at |-> metric.created_at, dashboard_id |-> metric.dashboard_id,
     previousValue |-> Absent]

\* setMetrics(initialMetrics)
SeedMetrics(initialMetrics) ==
    [i \in 1..Len(initialMetrics) |-> AsState(initialMetrics[i])]

\* faulty variant: the initial point of each series is left out
SeedHistoryEmpty(initialMetrics) ==
    [n \in {initialMetrics[i].name : i \in 1..Len(initialMetrics)} |-> <<>>]

\* initialHistory after the forEach: a later metric of the same name
\* overwrites the entry of an earlier one
SeedHistory(initialMetrics) ==
    [n \in {initialMetrics[i].name : i \in 1..Len(initialMetrics)} |->
        LET last == CHOOSE i \in 1..Len(initialMetrics) :
                       /\ initialMetrics[i].name = n
                       /\ \A j \in 1..Len(initialMetrics) :
                              initialMetrics[j].name = n => j <= i
        IN  <<[timestamp |-> initialMetrics[last].created_at,
               value |-> initialMetrics[last].value]>>]

\* fetches without its i-th entry
Settle(i) == SubSeq(fetches, 1, i - 1) \o SubSeq(fetches, i + 1, Len(fetches))

\* faulty variant: the histories survive the selection of another dashboard
handleDashboardSelectKeepHistory(dashboardId) ==
    /\ selectedDashboardId # dashboardId
    /\ selectedDashboardId' = dashboardId
    /\ metrics' = <<>>
    /\ cleared' = Len(metrics)
    /\ metricsError' = Null
    /\ loadingMetrics' = TRUE
    /\ fetches' = Append(fetches, dashboardId)
    /\ UNCHANGED <<metricsHistory, applied, mgrVars, envVars, connHist,
                   msgHist, limits, authVars, flowVars>>

\* handleDashboardSelect up to its await; it returns at once when
\* dashboardId is the selected one
handleDashboardSelect(dashboardId) ==
    /\ selectedDashboardId # dashboardId
    /\ selectedDashboardId' = dashboardId
    /\ metrics' = <<>>
    /\ metricsHistory' = EmptyRecord
    /\ applied' = EmptyRecord
    /\ cleared' = Len(metrics)
    /\ metricsError' = Null
    /\ loadingMetrics' = TRUE
    /\ fetches' = Append(fetches, dashboardId)
    /\ UNCHANGED <<mgrVars, envVars, connHist, msgHist, limits, authVars,
                   flowVars>>

\* handleDashboardSelect after its await: getDashboardMetrics resolved with
\* initialMetrics
metricsFetched(i, initialMetrics) ==
    /\ i \in 1..Len(fetches)
    /\ fetches' = Settle(i)
    /\ metrics' = SeedMetrics(initialMetrics)
    /\ metricsHistory' = SeedHistory(initialMetrics)
    /\ applied' = SeedHistory(initialMetrics)
    /\ loadingMetrics' = FALSE
    /\ UNCHANGED <<selectedDashboardId, metricsError, cleared, mgrVars,
                   envVars, connHist, msgHist, limits, authVars, flowVars>>

\* faulty variant: a rejected getDashboardMetrics records no error
metricsFetchFailedSilent(i) ==
    /\ i \in 1..Len(fetches)
    /\ fetches' = Settle(i)
    /\ loadingMetrics' = FALSE
    /\ UNCHANGED <<selectedDashboardId, metrics, metricsHistory, applied,
                   metricsError, cleared, mgrVars, envVars, connHist, msgHist,
                   limits, authVars, flowVars>>

\* handleDashboardSelect after its await: getDashboardMetrics rejected; the
\* api rejects with a string, which has no message property
metricsFetchFailed(i) ==
    /\ i \in 1..Len(fetches)
    /\ fetches' = Settle(i)
    /\ metricsError' = <<"Failed to fetch metrics">>
    /\ loadingMetrics' = FALSE
    /\ UNCHANGED <<selectedDashboardId, metrics, metricsHistory, applied,
                   cleared, mgrVars, envVars, connHist, msgHist, limits,
                   authVars, flowVars>>

\* handleDeleteDashboard, the user having confirmed and no other event
\* falling between the request and its response; a rejected request changes
\* nothing
handleDeleteDashboard(dashboardId) ==
    /\ IF selectedDashboardId = dashboardId
       THEN /\ selectedDashboardId' = 0
            /\ metrics' = <<>>
            /\ metricsHistory' = EmptyRecord
            /\ applied' = EmptyRecord
            /\ cleared' = Len(metrics)
       ELSE UNCHANGED <<selectedDashboardId, metrics, metricsHistory, applied,
                        cleared>>
    /\ UNCHANGED <<loadingMetrics, metricsError, fetches, mgrVars, envVars,
                   connHist, msgHist, limits, authVars, flowVars>>

\* prev.filter(m => m.id !== metricId)
FilterOut(prev, metricId) ==
    LET Kept(m) == m.id # metricId IN SelectSeq(prev, Kept)

\* handleDeleteMetric, the user having confirmed: nothing changes before
\* its await, and after it the updater is applied to the metrics of that
\* moment; a rejected request changes nothing
handleDeleteMetric(metricId) ==
    /\ metrics' = FilterOut(metrics, metricId)
    /\ UNCHANGED <<selectedDashboardId, loadingMetrics, metricsError, fetches,
                   cleared, metricsHistory, applied, mgrVars, envVars,
                   connHist, msgHist, limits, authVars, flowVars>>

\* the consumer the WebSocket effect registers
DashboardCallback == 1

\* the previous run of the effect returned a cleanup
HasCleanup == effectDeps[1] # 0 /\ ~Falsy(effectDeps[2])

\* the effect has run for the present selectedDashboardId and token
EffectSettled ==
    effectPc = "idle" /\ effectDeps = <<selectedDashboardId, authToken>>

\* the cleanup of the WebSocket effect, when its dependencies have changed
effectCleanup ==
    /\ effectPc = "idle"
    /\ effectDeps # <<selectedDashboardId, authToken>>
    /\ HasCleanup
    /\ disconnect
    /\ effectPc' = "run"
    /\ UNCHANGED <<effectDeps, clock>>

\* the body of the WebSocket effect: its connect call
effectRun ==
    /\ \/ effectPc = "run"
       \/ /\ effectPc = "idle"
          /\ effectDeps # <<selectedDashboardId, authToken>>
          /\ ~HasCleanup
    /\ effectDeps' = <<selectedDashboardId, authToken>>
    /\ IF selectedDashboardId # 0 /\ ~Falsy(authToken)
       THEN /\ connect(selectedDashboardId, authToken)
            /\ effectPc' = "register"
       ELSE /\ effectPc' = "idle"
            /\ UNCHANGED <<mgrVars, envVars, connHist, msgHist, dashVars,
                           applied, limits>>
    /\ UNCHANGED clock

\* the body of the WebSocket effect: its onMessage call
effectRegister ==
    /\ effectPc = "register"
    /\ onMessage(DashboardCallback)
    /\ effectPc' = "idle"
    /\ UNCHANGED <<effectDeps, clock>>

\* the id of the dashboard socket h was created for
ScopeOf(h) == sockets[h].url[2]

\* a 'metric_update' message arrives on socket h and the manager passes it
\* to the Dashboard's callback
metricUpdateArrives(h, updatedMetric) ==
    /\ h \in 1..Len(sockets)
    /\ sockets[h].readyState = "OPEN"
    /\ Quiet
    /\ onMessageCallback = DashboardCallback
    /\ updatedMetric.dashboard_id = ScopeOf(h)
    /\ updatedMetric.created_at = clock + 1
    /\ metricUpdate(updatedMetric)
    /\ clock' = clock + 1
    /\ UNCHANGED <<effectPc, effectDeps>>

----------------------------------------------------------------------------
(* AuthProvider: the token in memory and in localStorage *)

\* jwtDecode(tok) returns a payload; it throws for any other string
Decodes(tok) == tok \in {<<"jwt">>, <<"jwt2">>, <<"expired">>}

\* decodedToken.exp > currentTime
Unexpired(tok) == tok \in {<<"jwt">>, <<"jwt2">>}

\* the user set from the decoded token
UserOf(tok) == <<[id |-> 1, email |-> <<"sub of", tok[1]>>, role |-> "user"]>>

\* isAuthenticated of the context value
IsAuthenticated == ~Falsy(authToken)

\* logins without its i-th entry
Returned(i) == SubSeq(logins, 1, i - 1) \o SubSeq(logins, i + 1, Len(logins))

\* the effect on [token]
initializeAuth ==
    /\ authChecked # <<authToken>>
    /\ authChecked' = <<authToken>>
    /\ IF Falsy(authToken)
       THEN UNCHANGED <<authToken, user, storage>>
       ELSE IF Decodes(authToken) /\ Unexpired(authToken)
            THEN /\ user' = UserOf(authToken)
                 /\ UNCHANGED <<authToken, storage>>
            ELSE /\ storage' = Null
                 /\ authToken' = Null
                 /\ user' = Null
    /\ authLoading' = FALSE
    /\ UNCHANGED <<authError, logins, mgrVars, envVars, connHist, msgHist,
                   metrics, metricsHistory, applied, pageVars, flowVars,
                   limits>>

\* login, or register, up to its first await
authRequested(op) ==
    /\ authLoading' = TRUE
    /\ authError' = Null
    /\ logins' = Append(logins, op)
    /\ UNCHANGED <<authToken, user, storage, authChecked, mgrVars, envVars,
                   connHist, msgHist, metrics, metricsHistory, applied,
                   pageVars, flowVars, limits>>

\* register after apiRegister resolved: it calls login
registerResolved(i) ==
    /\ i \in 1..Len(logins)
    /\ logins[i] = "register"
    /\ authLoading' = TRUE
    /\ authError' = Null
    /\ logins' = [logins EXCEPT ![i] = "registerLogin"]
    /\ UNCHANGED <<authToken, user, storage, authChecked, mgrVars, envVars,
                   connHist, msgHist, metrics, metricsHistory, applied,
                   pageVars, flowVars, limits>>

\* login after apiLogin resolved with access_token; jwtDecode precedes the
\* writes, and its Error reaches the catch clauses
loggedIn(i, access_token) ==
    /\ i \in 1..Len(logins)
    /\ logins[i] \in {"login", "registerLogin"}
    /\ logins' = Returned(i)
    /\ IF Decodes(access_token)
       THEN /\ storage' = access_token
            /\ authToken' = access_token
            /\ user' = UserOf(access_token)
            /\ UNCHANGED authError
       ELSE /\ authError' = <<"Invalid token specified">>
            /\ UNCHANGED <<storage, authToken, user>>
    /\ authLoading' = FALSE
    /\ UNCHANGED <<authChecked, mgrVars, envVars, connHist, msgHist, metrics,
                   metricsHistory, applied, pageVars, flowVars, limits>>

\* apiRegister or apiLogin rejected: the api rejects with a string, so the
\* catch clauses use their own messages
authRejected(i) ==
    /\ i \in 1..Len(logins)
    /\ logins' = Returned(i)
    /\ authError' = IF logins[i] = "login" THEN <<"Login failed">>
                                           ELSE <<"Failed to register">>
    /\ authLoading' = FALSE
    /\ UNCHANGED <<authToken, user, storage, authChecked, mgrVars, envVars,
                   connHist, msgHist, metrics, metricsHistory, applied,
                   pageVars, flowVars, limits>>

\* faulty variant: the stored token survives the logout
logoutKeepStored ==
    /\ user' = Null
    /\ authToken' = Null
    /\ UNCHANGED <<storage, authLoading, authError, logins, authChecked,
                   mgrVars, envVars, connHist, msgHist, metrics,
                   metricsHistory, applied, pageVars, flowVars, limits>>

logout ==
    /\ user' = Null
    /\ authToken' = Null
    /\ storage' = Null
    /\ UNCHANGED <<authLoading, authError, logins, authChecked, mgrVars,
                   envVars, connHist, msgHist, metrics, metricsHistory,
                   applied, pageVars, flowVars, limits>>

----------------------------------------------------------------------------
(* Specification: the manager's connection handling under any            *)
(* interleaving of public calls, transport opens, errors and closures,    *)
(* and timers                                                             *)

InitManager ==
    /\ ws = 0
    /\ url = Null
    /\ token = Null
    /\ retries = 0
    /\ connectionState = "disconnected"
    /\ onMessageCallback = 0
    /\ sockets = <<>>
    /\ timers = <<>>
    /\ call = [op |-> "none", id |-> 0, tok |-> Null, early |-> FALSE]
    /\ delays = <<>>
    /\ closures = 0
    /\ staleTimers = 0
    /\ exhausted = FALSE
    /\ registered = 0
    /\ arrived = <<>>
    /\ invoked = <<>>
    /\ dropped = <<>>

InitDashboard ==
    /\ metrics = <<>>
    /\ metricsHistory = EmptyRecord
    /\ applied = EmptyRecord
    /\ selectedDashboardId = 0
    /\ loadingMetrics = FALSE
    /\ metricsError = Null
    /\ fetches = <<>>
    /\ effectDeps = <<0, Null>>
    /\ effectPc = "idle"
    /\ clock = 0
    /\ cleared = 0

\* AuthProvider at its first render, with nothing in localStorage
InitAuth ==
    /\ storage = Null
    /\ authToken = Null
    /\ user = Null
    /\ authLoading = TRUE
    /\ authError = Null
    /\ logins = <<>>
    /\ authChecked = <<>>

Init ==
    /\ InitManager
    /\ InitDashboard
    /\ InitAuth
    /\ limits = [sockets |-> MaxSockets, messages |-> 0, track |-> FALSE,
                 stride |-> 1]

\* a step taken while no WebSocket effect of the Dashboard is running
Outside(A) == A /\ UNCHANGED flowVars

Next ==
    \/ \E d \in DashboardIds, t \in Tokens : Outside(connect(d, t))
    \/ Outside(disconnect)
    \/ \E c \in Consumers : Outside(onMessage(c))
    \/ \E h \in 1..MaxSockets : Outside(onopen(h))
    \/ \E h \in 1..MaxSockets : Outside(onerror(h))
    \/ \E h \in 1..MaxSockets, c \in CloseCodes : Outside(onclose(h, c))
    \/ \E i \in 1..MaxSockets : Outside(timerFires(i))

Spec == Init /\ [][Next]_vars

(* Specification: the same, with inbound messages *)

InitInbound ==
    /\ InitManager
    /\ InitDashboard
    /\ InitAuth
    /\ limits = [sockets |-> MaxSockets, messages |-> MaxMessages,
                 track |-> FALSE, stride |-> 1]

NextInbound ==
    \/ Next
    \/ \E h \in 1..MaxSockets, p \in Payloads : Outside(onmessage(h, p))

SpecInbound == InitInbound /\ [][NextInbound]_vars

(* Specification: one connect() with a valid scope, then transport events *)
(* and timers only, with the closures and delays recorded                 *)

InitSession ==
    /\ InitManager
    /\ InitDashboard
    /\ InitAuth
    /\ limits = [sockets |-> MaxSocketsSession,
                 messages |-> MaxMessagesSession,
                 track |-> TRUE, stride |-> 1]

NextSession ==
    \/ /\ call.op = "none"
       /\ \E d \in DashboardIds : Outside(connect(d, <<"jwt">>))
    \/ \E c \in Consumers : Outside(onMessage(c))
    \/ \E h \in 1..MaxSocketsSession : Outside(onopen(h))
    \/ \E h \in 1..MaxSocketsSession, p \in Payloads :
          Outside(onmessage(h, p))
    \/ \E h \in 1..MaxSocketsSession : Outside(onerror(h))
    \/ \E h \in 1..MaxSocketsSession, c \in CloseCodes :
          Outside(onclose(h, c))
    \/ \E i \in 1..MaxSocketsSession : Outside(timerFires(i))

SpecSession == InitSession /\ [][NextSession]_vars

(* Specification: metric updates applied to the Dashboard's table; the    *)
(* k-th update of a series is observed at time k with a value the run's   *)
(* stride fixes                                                           *)

InitHistory ==
    /\ InitManager
    /\ InitDashboard
    /\ InitAuth
    /\ \E st \in 1..MaxStride :
          limits = [sockets |-> 0, messages |-> 0, track |-> FALSE,
                    stride |-> st]

\* the number of updates applied to series name so far
Count(name) == Len(HistoryOf(applied, name))

\* the k-th update of series name in this run
UpdateNo(name, k) ==
    [id |-> IF name = "cpu" THEN 1 ELSE 2, name |-> name,
     value |-> (k * limits.stride) % 7, created_at |-> k, dashboard_id |-> 1]

NextHistory ==
    \/ /\ Count("cpu") < MaxApplied
       /\ Outside(metricUpdate(UpdateNo("cpu", Count("cpu") + 1)))
    \/ /\ Count("mem") < MaxOther
       /\ Outside(metricUpdate(UpdateNo("mem", Count("mem") + 1)))

SpecHistory == InitHistory /\ [][NextHistory]_vars

----------------------------------------------------------------------------
(* Specification: the Dashboard page, its snapshot requests and the       *)
(* metric updates its WebSocket effect subscribes to                      *)

SeriesNames == {"cpu", "mem"}

\* a Metric of the API
Metric(id, name, value, created_at, dashboardId) ==
    [id |-> id, name |-> name, value |-> value, created_at |-> created_at,
     dashboard_id |-> dashboardId]

\* the responses getDashboardMetrics may resolve with
Snapshots(dashboardId) ==
    { <<>>,
      <<Metric(1, "cpu", 10, 0, dashboardId)>>,
      <<Metric(1, "cpu", 10, 0, dashboardId),
        Metric(2, "mem", 20, 0, dashboardId)>>,
      <<Metric(1, "cpu", 10, 0, dashboardId),
        Metric(3, "cpu", 30, 0, dashboardId)>> }

\* the data of the 'metric_update' messages the server may send: the t-th
\* of a run is observed at t and carries the value 15 + 27 * (t - 1)
Updates ==
    { Metric(IF n = "cpu" THEN 1 ELSE 2, n, 15 + 27 * (t - 1), t, d) :
        n \in SeriesNames, t \in 1..limits.messages, d \in DashboardIds }

InitPage ==
    /\ InitManager
    /\ InitDashboard
    /\ authToken \in {Null, <<"jwt">>}
    /\ storage = authToken
    /\ user = IF Falsy(authToken) THEN Null ELSE UserOf(authToken)
    /\ authLoading = FALSE
    /\ authError = Null
    /\ logins = <<>>
    /\ authChecked = <<authToken>>
    /\ limits = [sockets |-> MaxViews, messages |-> MaxUpdates,
                 track |-> FALSE, stride |-> 1]

\* The handlers of the page run when the effect of the previous render has
\* run; a transport event may fall between a render and its effect, never
\* inside the effect.
NextPage ==
    \/ /\ EffectSettled
       /\ Falsy(authToken) \/ Len(sockets) < limits.sockets
       /\ Len(fetches) < MaxPending
       /\ \E d \in DashboardIds : handleDashboardSelect(d)
    \/ \E i \in 1..MaxPending :
          /\ EffectSettled
          /\ i <= Len(fetches)
          /\ \E initialMetrics \in Snapshots(fetches[i]) :
                 metricsFetched(i, initialMetrics)
    \/ \E i \in 1..MaxPending : EffectSettled /\ metricsFetchFailed(i)
    \/ \E d \in DashboardIds :
          /\ EffectSettled
          /\ selectedDashboardId = d
          /\ handleDeleteDashboard(d)
    \/ \E metricId \in 1..3 :
          /\ EffectSettled
          /\ \E k \in 1..Len(metrics) : metrics[k].id = metricId
          /\ handleDeleteMetric(metricId)
    \/ effectCleanup
    \/ effectRun
    \/ effectRegister
    \/ \E h \in 1..limits.sockets : effectPc = "idle" /\ Outside(onopen(h))
    \/ \E h \in 1..limits.sockets, updatedMetric \in Updates :
          /\ effectPc = "idle"
          /\ clock < limits.messages
          /\ metricUpdateArrives(h, updatedMetric)

SpecPage == InitPage /\ [][NextPage]_vars

----------------------------------------------------------------------------
(* Specification: the manager's connection handling when connect() may    *)
(* also be called without a dashboard id, 0 standing for the missing id    *)

NextScope ==
    \/ Next
    \/ \E t \in Tokens : Outside(connect(0, t))

SpecScope == Init /\ [][NextScope]_vars

----------------------------------------------------------------------------
(* Specification: connect() is called, at any moment, until MaxCalls        *)
(* sockets exist; transport events and timers only follow                  *)

InitOverlap ==
    /\ InitManager
    /\ InitDashboard
    /\ InitAuth
    /\ limits = [sockets |-> MaxSocketsOverlap, messages |-> 0,
                 track |-> FALSE, stride |-> 1]

NextOverlap ==
    \/ /\ Len(sockets) < MaxCalls
       /\ \E d \in DashboardIds : Outside(connect(d, <<"jwt">>))
    \/ \E h \in 1..MaxSocketsOverlap : Outside(onopen(h))
    \/ \E h \in 1..MaxSocketsOverlap : Outside(onerror(h))
    \/ \E h \in 1..MaxSocketsOverlap, c \in CloseCodes : Outside(onclose(h, c))
    \/ \E i \in 1..MaxSocketsOverlap : Outside(timerFires(i))

SpecOverlap == InitOverlap /\ [][NextOverlap]_vars

----------------------------------------------------------------------------
(* Specification: the AuthProvider from its first render, with whatever    *)
(* an earlier visit left in localStorage                                   *)

\* the access tokens the server may return
AccessTokens == {<<"jwt">>, <<"jwt2">>, <<"expired">>, <<"garbage">>, <<"">>}

InitAuthProvider ==
    /\ InitManager
    /\ InitDashboard
    /\ storage \in {Null, <<"jwt">>, <<"expired">>, <<"garbage">>}
    /\ authToken = storage
    /\ user = Null
    /\ authLoading = TRUE
    /\ authError = Null
    /\ logins = <<>>
    /\ authChecked = <<>>
    /\ limits = [sockets |-> 0, messages |-> 0, track |-> FALSE,
                 stride |-> 1]

\* the effect of a render runs before the next call or response is handled
NextAuthProvider ==
    \/ initializeAuth
    \/ \E op \in {"login", "register"} :
          /\ authChecked = <<authToken>>
          /\ Len(logins) < MaxLogins
          /\ authRequested(op)
    \/ \E i \in 1..MaxLogins : authChecked = <<authToken>> /\ registerResolved(i)
    \/ \E i \in 1..MaxLogins, access_token \in AccessTokens :
          authChecked = <<authToken>> /\ loggedIn(i, access_token)
    \/ \E i \in 1..MaxLogins : authChecked = <<authToken>> /\ authRejected(i)
    \/ authChecked = <<authToken>> /\ logout

SpecAuthProvider == InitAuthProvider /\ [][NextAuthProvider]_vars

----------------------------------------------------------------------------
(* Specification: connect() at any moment, transport events and timers,    *)
(* with room for a third socket                                             *)

InitRescope ==
    /\ InitManager
    /\ InitDashboard
    /\ InitAuth
    /\ limits = [sockets |-> MaxSocketsRescope, messages |-> 0,
                 track |-> FALSE, stride |-> 1]

NextRescope ==
    \/ \E d \in DashboardIds : Outside(connect(d, <<"jwt">>))
    \/ \E h \in 1..MaxSocketsRescope : Outside(onopen(h))
    \/ \E h \in 1..MaxSocketsRescope : Outside(onerror(h))
    \/ \E h \in 1..MaxSocketsRescope, c \in CloseCodes : Outside(onclose(h, c))
    \/ \E i \in 1..MaxSocketsRescope : Outside(timerFires(i))

SpecRescope == InitRescope /\ [][NextRescope]_vars

(* Specification: one connect() with a valid scope whose every socket     *)
(* fails before it opens (error and close, or close alone, with a code    *)
(* other than 1000); the browser eventually delivers each close event and *)
(* eventually runs each pending timer                                     *)

NextFailing ==
    \/ /\ call.op = "none"
       /\ \E d \in DashboardIds : Outside(connect(d, <<"jwt">>))
    \/ \E c \in Consumers : Outside(onMessage(c))
    \/ \E h \in 1..MaxSocketsSession : Outside(onerror(h))
    \/ \E h \in 1..MaxSocketsSession : Outside(onclose(h, 1006))
    \/ \E i \in 1..MaxSocketsSession : Outside(timerFires(i))

FairFailing ==
    /\ WF_vars(\E h \in 1..MaxSocketsSession : Outside(onerror(h)))
    /\ WF_vars(\E h \in 1..MaxSocketsSession : Outside(onclose(h, 1006)))
    /\ WF_vars(\E i \in 1..MaxSocketsSession : Outside(timerFires(i)))

SpecFailing == InitSession /\ [][NextFailing]_vars /\ FairFailing

----------------------------------------------------------------------------
(* Properties of the WebSocketManager *)

Handles == 1..Len(sockets)

\* the scope socket h was created for differs from (dashboardId, tok)
OtherScope(h, u, t) == sockets[h].url # FullUrl(u, t)

\* C1: at most one transport handle created by the manager is open at a
\* time, whatever the interleaving of calls, transport events and timers.
C1_AtMostOneOpen == Cardinality(OpenSockets) <= 1

\* C2: a handle superseded by a connect() for another scope before it
\* opened never brings the manager to Connected and never has one of its
\* inbound events passed to the consumer.
C2_StaleHandleSilent ==
    [][\A h \in Handles :
         (h # ws /\ OtherScope(h, url, token)) =>
            /\ onopen(h) => connectionState' # "connected"
            /\ \A p \in Payloads : onmessage(h, p) => invoked' = invoked]_vars

\* C3: disconnect() leaves the state Disconnected, and from then on no
\* transport is opened until connect() is called again, a backoff timer
\* scheduled earlier included.
C3_DisconnectStopsOpens ==
    [][/\ disconnect => connectionState' = "disconnected"
       /\ (call.op = "disconnect" /\ call'.op = "disconnect")
             => Len(sockets') = Len(sockets)]_vars

\* C4: a closure of the current session with code 1000 sets the state to
\* Disconnected, leaves the retry counter as it was and schedules no
\* reconnect, for every value of the retry counter.
C4_NormalClosureFinal ==
    [][\A h \in Handles :
         (h = ws /\ onclose(h, NORMAL_CLOSURE)) =>
            /\ connectionState' = "disconnected"
            /\ retries' = retries
            /\ timers' = timers]_vars

\* C4 witness: the current session was closed with code 1000 while the
\* retry counter was above zero and below the maximum.
C4_Witness ==
    /\ ws # 0
    /\ sockets[ws].code = NORMAL_CLOSURE
    /\ retries \in 1..(MAX_RETRIES - 1)
    /\ connectionState = "disconnected"

\* C5 as claimed: the fifth consecutive non-1000 closure exhausts the retry
\* budget, leaving the state Disconnected, no reconnect pending and the
\* four delays base*2^1 .. base*2^4 scheduled.
C5_FifthClosureExhausts ==
    closures = 5 =>
        /\ connectionState = "disconnected"
        /\ timers = <<>>
        /\ delays = <<2000, 4000, 8000, 16000>>

\* C5 amended: the fifth consecutive non-1000 closure still schedules a
\* reconnect (delay base*2^5); the sixth exhausts the budget, leaving the
\* state Disconnected, no reconnect pending and the five delays
\* base*2^1 .. base*2^5 scheduled.
C5_SixthClosureExhausts ==
    /\ closures = 5 =>
          /\ connectionState # "disconnected"
          /\ delays = <<2000, 4000, 8000, 16000, 32000>>
    /\ closures = 6 =>
          /\ connectionState = "disconnected"
          /\ timers = <<>>
          /\ delays = <<2000, 4000, 8000, 16000, 32000>>

\* C5 witness: six consecutive non-1000 closures have been handled.
C5_Witness == closures = 6 /\ connectionState = "disconnected"

\* C6: connect() with a missing credential ends in Failed, creates no
\* handle and schedules no timer; until the next connect() the state does
\* not become Connected and no transport is opened.
C6_MissingCredentialFails ==
    [][/\ \A d \in DashboardIds :
            connect(d, <<"">>) =>
               /\ connectionState' = "error"
               /\ sockets' = sockets
               /\ timers' = timers
       /\ (call.op = "connect" /\ Falsy(call.tok) /\ call' = call) =>
               /\ connectionState' # "connected"
               /\ Len(sockets') = Len(sockets)]_vars

\* the manager's current session is Connected and was opened for the
\* scope (dashboardId, tok)
ConnectedTo(dashboardId, tok) ==
    /\ ws # 0
    /\ sockets[ws].readyState = "OPEN"
    /\ connectionState = "connected"
    /\ ~OtherScope(ws, UrlOf(dashboardId), tok)

\* C7: connect(r, c) while the session for the identical scope (r, c) is
\* Connected changes nothing: no handle is created, and state, retry
\* counter, scope and consumer stay as they were.
C7_ConnectIdempotent ==
    [][\A d \in DashboardIds, t \in Tokens :
         (ConnectedTo(d, t) /\ connect(d, t)) =>
            UNCHANGED <<mgrVars, envVars>>]_vars

\* C7 witness: connect() was called for the scope of the Connected
\* session and returned early.
C7_Witness ==
    /\ call.op = "connect"
    /\ call.early
    /\ ConnectedTo(call.id, call.tok)

\* C8: connect() for another resourceId while a session is Connecting or
\* Connected closes the old handle and opens a transport for the new
\* scope, to which the manager is bound afterwards.
C8_ScopeChangeTearsDown ==
    [][\A d \in DashboardIds, t \in Tokens :
         (/\ ws # 0
          /\ sockets[ws].readyState \in {"CONNECTING", "OPEN"}
          /\ url # UrlOf(d)
          /\ ~Falsy(t)
          /\ connect(d, t)) =>
            /\ sockets'[ws].readyState \in {"CLOSING", "CLOSED"}
            /\ ws' # ws
            /\ url' = UrlOf(d)
            /\ ~OtherScope(ws, url, token)']_vars

RECURSIVE Expected(_)
\* the consumer invocations that the arrivals call for: one per parsed
\* event that arrived while a consumer was registered, to that consumer
Expected(arrivals) ==
    IF arrivals = <<>> THEN <<>>
    ELSE LET a == Head(arrivals)
         IN  (IF a.reg # 0
              THEN <<[to |-> a.reg, message |-> a.message]>>
              ELSE <<>>) \o Expected(Tail(arrivals))

\* C9: one consumer slot; each parsed inbound event is passed exactly once,
\* in arrival order, to the consumer of the latest onMessage() call and to
\* no replaced one.
C9_SingleConsumerInOrder == invoked = Expected(arrived)

\* C9 witness: two different events were delivered, the second to a
\* consumer that replaced the first one's.
C9_Witness ==
    /\ Len(invoked) >= 2
    /\ invoked[1].to # invoked[2].to
    /\ invoked[1].message # invoked[2].message

----------------------------------------------------------------------------
(* Properties of the Dashboard's table *)

RECURSIVE DropOldest(_, _)
\* seq with its oldest entries dropped until at most n are left
DropOldest(seq, n) == IF Len(seq) <= n THEN seq ELSE DropOldest(Tail(seq), n)

\* C10: a series' history never holds more than 100 points, and once more
\* than 100 were applied it holds exactly the 100 most recently applied
\* ones in application order.
C10_HistoryBounded ==
    \A n \in DOMAIN metricsHistory :
        /\ Len(metricsHistory[n]) <= HISTORY_LIMIT
        /\ metricsHistory[n] = DropOldest(applied[n], HISTORY_LIMIT)

\* C10 witness: more than 100 updates were applied to one series, so its
\* oldest points were evicted.
C10_Witness ==
    /\ "cpu" \in DOMAIN applied
    /\ Len(applied["cpu"]) > HISTORY_LIMIT
    /\ Len(metricsHistory["cpu"]) = HISTORY_LIMIT
    /\ metricsHistory["cpu"][1] # applied["cpu"][1]

----------------------------------------------------------------------------
(* Properties of the Dashboard's series table *)

\* the point an update puts into the history of its series
PointOf(updatedMetric) ==
    [timestamp |-> updatedMetric.created_at, value |-> updatedMetric.value]

\* C11: an update for a series that is in the table moves the entry's
\* current value into previousValue, sets the current value to the update's
\* value and appends the update's point to the series' history; every other
\* entry stays as it was.
C11_UpdateShiftsValue ==
    [][clock' # clock => \A h \in Handles, updatedMetric \in Updates :
         LET k == FindIndex(metrics, updatedMetric.name)
         IN  (metricUpdateArrives(h, updatedMetric) /\ k # 0) =>
                /\ Len(metrics') = Len(metrics)
                /\ metrics'[k].value = updatedMetric.value
                /\ metrics'[k].previousValue = <<metrics[k].value>>
                /\ \A j \in 1..Len(metrics) : j # k => metrics'[j] = metrics[j]
                /\ metricsHistory'[updatedMetric.name] =
                      DropOldest(Append(metricsHistory[updatedMetric.name],
                                        PointOf(updatedMetric)),
                                 HISTORY_LIMIT)]_vars

\* C11 witness: the series cpu was seeded with 10 at time 0 and updated
\* with 15 at time 1 and with 42 at time 2.
C11_Witness ==
    /\ Len(metrics) = 1
    /\ metrics[1].name = "cpu"
    /\ metrics[1].value = 42
    /\ metrics[1].previousValue = <<15>>
    /\ metricsHistory["cpu"] = <<[timestamp |-> 0, value |-> 10],
                                 [timestamp |-> 1, value |-> 15],
                                 [timestamp |-> 2, value |-> 42]>>

\* C12: an update for a series name that is not in the table creates a new
\* entry whose current value is the update's value, whose previousValue is
\* absent and whose history is exactly the update's single point.
C12_NewSeriesFresh ==
    [][clock' # clock => \A h \in Handles, updatedMetric \in Updates :
         (metricUpdateArrives(h, updatedMetric)
             /\ FindIndex(metrics, updatedMetric.name) = 0) =>
            /\ Len(metrics') = Len(metrics) + 1
            /\ metrics'[Len(metrics')].name = updatedMetric.name
            /\ metrics'[Len(metrics')].value = updatedMetric.value
            /\ metrics'[Len(metrics')].previousValue = Absent
            /\ metricsHistory'[updatedMetric.name] =
                  <<PointOf(updatedMetric)>>]_vars

\* the names of the series of a snapshot
NamesOf(initialMetrics) ==
    {initialMetrics[k].name : k \in 1..Len(initialMetrics)}

\* C13: when the snapshot of a selection is applied, the table becomes
\* exactly the snapshot's series, whatever it held before: every seeded
\* entry has the snapshot's value and no previousValue, and the history of
\* every seeded series is one point taken from the snapshot; no other series
\* has an entry or a history.
C13_SeedReplacesTable ==
    [][fetches' # fetches =>
       \A i \in 1..Len(fetches) : \A initialMetrics \in Snapshots(fetches[i]) :
         metricsFetched(i, initialMetrics) =>
            /\ Len(metrics') = Len(initialMetrics)
            /\ \A k \in 1..Len(initialMetrics) :
                  /\ metrics'[k].id = initialMetrics[k].id
                  /\ metrics'[k].name = initialMetrics[k].name
                  /\ metrics'[k].value = initialMetrics[k].value
                  /\ metrics'[k].previousValue = Absent
            /\ DOMAIN metricsHistory' = NamesOf(initialMetrics)
            /\ \A n \in NamesOf(initialMetrics) :
                  /\ Len(metricsHistory'[n]) = 1
                  /\ \E k \in 1..Len(initialMetrics) :
                        /\ initialMetrics[k].name = n
                        /\ metricsHistory'[n][1] =
                              PointOf(initialMetrics[k])]_vars

\* C13 witness: a metric update arrived after the selection and before its
\* snapshot, and the table holds the two series of the snapshot only.
C13_Witness ==
    /\ clock >= 1
    /\ Len(sockets) = 1
    /\ fetches = <<>>
    /\ Len(metrics) = 2
    /\ \A k \in 1..2 : metrics[k].previousValue = Absent
    /\ metricsHistory = [n \in SeriesNames |->
                            <<[timestamp |-> 0,
                               value |-> IF n = "cpu" THEN 10 ELSE 20]>>]

\* C14: every change of the selected dashboard empties the whole table in
\* the same step, and the request whose response seeds the table for a
\* newly selected dashboard is only issued by that step, so the seed comes
\* after the clearing.
C14_SelectionChangeClears ==
    [][selectedDashboardId' # selectedDashboardId =>
          /\ metrics' = <<>>
          /\ metricsHistory' = EmptyRecord
          /\ selectedDashboardId' # 0 =>
                fetches' = Append(fetches, selectedDashboardId')]_vars

\* C14 witness: no stream exists, so the entries of the table came from a
\* seed; another dashboard was then selected, which removed them, and its
\* own snapshot is still awaited.
C14_Witness ==
    /\ sockets = <<>>
    /\ cleared > 0
    /\ selectedDashboardId # 0
    /\ fetches = <<selectedDashboardId>>
    /\ metrics = <<>>
    /\ metricsHistory = EmptyRecord

\* C15: the response, successful or failed, of a snapshot request made for
\* a dashboard that is not the selected one any more is discarded: it
\* changes neither the table nor the error state nor the loading flag.
C15_LastSelectionWins ==
    [][fetches' # fetches => \A i \in 1..Len(fetches) :
         (/\ fetches[i] # selectedDashboardId
          /\ \/ metricsFetchFailed(i)
             \/ \E initialMetrics \in Snapshots(fetches[i]) :
                   metricsFetched(i, initialMetrics)) =>
            UNCHANGED <<metrics, metricsHistory, metricsError,
                        loadingMetrics>>]_vars

----------------------------------------------------------------------------
(* Further properties of the WebSocketManager *)

\* C16: connect() without a dashboard id is rejected as connect() without
\* a token is: the state becomes error, no socket is created and no retry
\* is scheduled.
C16_MissingScopeFails ==
    [][\A t \in Tokens :
         (connect(0, t) /\ ~AlreadyConnected) =>
            /\ connectionState' = "error"
            /\ sockets' = sockets
            /\ timers' = timers]_vars

\* C17: once a closure has found the retry budget used up, the manager
\* creates no socket and its state stays disconnected until connect() is
\* called.
C17_ExhaustionFinal ==
    [][(exhausted /\ exhausted') =>
          /\ Len(sockets') = Len(sockets)
          /\ connectionState' = "disconnected"]_vars

\* C20: a timer that was pending when connect() was called creates no
\* socket when it fires, so that the socket of that connect() is the only
\* one resulting from it.
C20_ConnectCancelsTimer ==
    [][\A i \in 1..Len(timers) :
         (timerFires(i) /\ i <= staleTimers) =>
            Len(sockets') = Len(sockets)]_vars

----------------------------------------------------------------------------
(* Properties of the AuthProvider *)

\* C19: the token in memory always equals the item 'authToken' of
\* localStorage and isAuthenticated is true exactly when a token is
\* present; a login that obtained a decodable token leaves that token in
\* both places, and a logout leaves no token in either place and no user.
C19_TokenMirrorsStorage ==
    /\ [](/\ authToken = storage
          /\ IsAuthenticated <=> authToken # Null)
    /\ [][/\ logout => (authToken' = Null /\ storage' = Null /\ user' = Null)
          /\ \A i \in 1..Len(logins), access_token \in AccessTokens :
                (loggedIn(i, access_token) /\ Decodes(access_token)) =>
                   (authToken' = access_token /\ storage' = access_token)]_vars

\* C19 witness: a login stored the token jwt2, the effect ran for it, and
\* a logout followed.
C19_Witness ==
    /\ authChecked = <<<<"jwt2">>>>
    /\ authToken = Null
    /\ storage = Null
    /\ user = Null
    /\ logins = <<>>

----------------------------------------------------------------------------
(* Properties of the Dashboard's snapshot request and stream *)

\* C18: a failed snapshot request records an error, ends the loading and
\* seeds nothing: the table and the manager stay as they were.  Whatever
\* the outcome of the request, once the effect has run for a selected
\* dashboard and a token, the manager's socket is the one created for that
\* dashboard and token.
C18_FetchFailureKeepsStream ==
    /\ []((EffectSettled /\ selectedDashboardId # 0 /\ ~Falsy(authToken)) =>
             /\ ws \in Handles
             /\ sockets[ws].url =
                   FullUrl(UrlOf(selectedDashboardId), authToken))
    /\ [][fetches' # fetches => \A i \in 1..Len(fetches) :
            metricsFetchFailed(i) =>
               /\ metricsError' # Null
               /\ ~loadingMetrics'
               /\ UNCHANGED <<metrics, metricsHistory, ws, sockets,
                              connectionState, onMessageCallback>>]_vars

\* C18 witness: the snapshot request of the selected dashboard has failed,
\* the table holds no seed, and the socket of that dashboard is open.
C18_Witness ==
    /\ metricsError # Null
    /\ fetches = <<>>
    /\ metrics = <<>>
    /\ selectedDashboardId # 0
    /\ ws \in Handles
    /\ sockets[ws].url = FullUrl(UrlOf(selectedDashboardId), authToken)
    /\ sockets[ws].readyState = "OPEN"

----------------------------------------------------------------------------
(* Properties of the WebSocketManager's reconnection *)

\* C21: when connect() was called while a backoff timer was pending, the
\* socket that timer creates is one for the dashboard and token passed to
\* that latest connect(), not for those of the session that scheduled it.
C21_RetryUsesLatestScope ==
    [][\A i \in 1..Len(timers) :
         (timerFires(i) /\ i <= staleTimers /\ call.op = "connect"
             /\ Len(sockets') > Len(sockets)) =>
            sockets'[Len(sockets')].url =
               FullUrl(UrlOf(call.id), call.tok)]_vars

\* C22: a closure with a code other than 1000 while retries is below
\* MAX_RETRIES adds one to retries, adds exactly one timer and sets the
\* state to connecting; the timer's delay is RETRY_INTERVAL_MS * 2^r for
\* the incremented r, whatever its size.
C22_BackoffSchedule ==
    [][\A h \in Handles, code \in CloseCodes :
         (onclose(h, code) /\ code # NORMAL_CLOSURE
             /\ retries < MAX_RETRIES) =>
            /\ retries' = retries + 1
            /\ connectionState' = "connecting"
            /\ Len(timers') = Len(timers) + 1
            /\ SubSeq(timers', 1, Len(timers)) = timers
            /\ timers'[Len(timers')] = RETRY_INTERVAL_MS * 2^(retries')]_vars

\* C22 witness: the fifth abnormal closure in a row has scheduled the
\* retry after 32 seconds.
C22_Witness ==
    /\ retries = MAX_RETRIES
    /\ connectionState = "connecting"
    /\ timers = <<32000>>

\* C23: the open event of the manager's socket takes the state from
\* connecting to connected and sets retries to 0, so that an abnormal
\* closure of the connected session is the first of a new budget: retries
\* becomes 1 and the one timer it adds has the shortest delay.
C23_OpenResetsBudget ==
    [][\A h \in Handles :
         /\ (onopen(h) /\ h = ws /\ connectionState = "connecting") =>
               /\ connectionState' = "connected"
               /\ retries' = 0
               /\ UNCHANGED <<ws, url, token, timers>>
         /\ \A code \in CloseCodes :
               (onclose(h, code) /\ h = ws /\ code # NORMAL_CLOSURE
                   /\ connectionState = "connected") =>
                  /\ retries' = 1
                  /\ timers' = Append(timers, 2 * RETRY_INTERVAL_MS)]_vars

\* C23 witness: a reconnect attempt opened, which emptied the record of
\* delays, and its abnormal closure has scheduled a retry after 2 seconds.
C23_Witness ==
    /\ Len(sockets) >= 2
    /\ sockets[Len(sockets)].code = 1006
    /\ delays = <<2000>>
    /\ timers = <<2000>>
    /\ retries = 1

\* C25: a payload that fails to parse is dropped: the consumer is not
\* invoked, and connectionState, retries, the rest of the manager, the
\* sockets, the timers and the metrics table stay as they are; a payload
\* that parses after a dropped one is still delivered to the registered
\* consumer.
C25_UnparsableDropped ==
    [][\A h \in Handles, p \in Payloads :
         /\ (onmessage(h, p) /\ ~Parses(p)) =>
               /\ invoked' = invoked
               /\ arrived' = arrived
               /\ UNCHANGED <<mgrVars, envVars, metrics, metricsHistory>>
         /\ (onmessage(h, p) /\ Parses(p) /\ dropped # <<>>
                /\ onMessageCallback # 0) =>
               invoked' = Append(invoked, [to |-> onMessageCallback,
                                           message |-> JSONparse(p)])]_vars

\* C25 witness: the first payload of the session failed to parse and a
\* later one was delivered to the consumer, the connection still open.
C25_Witness ==
    /\ dropped # <<>>
    /\ dropped[1] = 0
    /\ Len(invoked) >= 1
    /\ connectionState = "connected"
    /\ retries = 0

\* C24: an error event sets connectionState to error and changes nothing
\* else of the manager: retries, url, token, ws, the consumer and the
\* pending timers stay as they are and no socket is created; the close
\* event that follows it is the step that either schedules a retry or
\* gives up.
C24_ErrorOnlySetsState ==
    [][\A h \in Handles :
         /\ onerror(h) =>
               /\ connectionState' = "error"
               /\ UNCHANGED <<ws, url, token, retries, onMessageCallback,
                              timers>>
               /\ Len(sockets') = Len(sockets)
         /\ \A code \in CloseCodes :
               (onclose(h, code) /\ sockets[h].pending = "errorFired") =>
                  /\ connectionState = "error"
                  /\ IF retries < MAX_RETRIES
                     THEN /\ connectionState' = "connecting"
                          /\ Len(timers') = Len(timers) + 1
                     ELSE /\ connectionState' = "disconnected"
                          /\ timers' = timers]_vars

\* C24 witness: the socket held by the manager has raised its error event
\* after two retries and its close event is still to come.
C24_Witness ==
    /\ ws # 0
    /\ sockets[ws].pending = "errorFired"
    /\ connectionState = "error"
    /\ retries = 2
    /\ timers = <<>>

\* C26: after disconnect() and a connect() for the next dashboard, the close
\* event of the socket that disconnect() closed, whatever its code, leaves
\* connectionState, retries and the pending timers of the new session as
\* they are.
C26_OldCloseIgnored ==
    [][\A h \in Handles, code \in CloseCodes :
         (onclose(h, code) /\ sockets[h].readyState = "CLOSING"
             /\ ws # 0 /\ ws # h /\ call.op = "connect" /\ ~call.early) =>
            UNCHANGED <<connectionState, retries, timers>>]_vars

\* C27: connectionState agrees with the socket held in ws: it is connected
\* only while that socket is open, and it is never disconnected while ws
\* holds an open socket whose events go to a registered consumer.
C27_StateAgreesWithHandle ==
    /\ connectionState = "connected" =>
          (ws # 0 /\ sockets[ws].readyState = "OPEN")
    /\ ~ /\ connectionState = "disconnected"
         /\ ws # 0
         /\ sockets[ws].readyState = "OPEN"
         /\ onMessageCallback # 0

\* C28: after a connect() with a dashboard and a token, when every socket
\* fails with a closure other than 1000 and close events and timers are
\* eventually processed, the manager creates at most MAX_RETRIES sockets
\* from timers (MAX_RETRIES + 1 in all) and from some point on stays
\* disconnected with no timer pending; it does not stay connecting forever.
C28_RetriesEndDisconnected ==
    /\ [](Len(sockets) <= MAX_RETRIES + 1)
    /\ [](call.op = "connect" =>
             <>[](connectionState = "disconnected" /\ timers = <<>>))
    /\ ~<>[](connectionState = "connecting")

\* C28 witness: the sixth socket of the session has failed and the manager
\* has given up.
C28_Witness ==
    /\ call.op = "connect"
    /\ Len(sockets) = MAX_RETRIES + 1
    /\ sockets[Len(sockets)].readyState = "CLOSED"
    /\ retries = MAX_RETRIES
    /\ timers = <<>>
    /\ connectionState = "disconnected"

\* C29: after every snapshot and every metric update the table has at most
\* one entry for each series name, also when the snapshot lists a name more
\* than once; an update for a name that has an entry adds no entry.
C29_OneEntryPerName ==
    [][/\ \A i, j \in 1..Len(metrics') :
             metrics'[i].name = metrics'[j].name => i = j
       /\ clock' # clock =>
             \A h \in Handles, updatedMetric \in Updates :
                (metricUpdateArrives(h, updatedMetric)
                    /\ FindIndex(metrics, updatedMetric.name) # 0) =>
                   Len(metrics') = Len(metrics)]_vars

\* C30: retries is between 0 and MAX_RETRIES in every reachable state,
\* whatever the order of connect(), disconnect(), the open, close and error
\* events of the current and of superseded sockets, and the timers.
C30_RetriesInRange == retries \in 0..MAX_RETRIES

\* C30 witness: after disconnect() set retries to MAX_RETRIES, the socket
\* it closed reported a closure with a code other than 1000, which found
\* the budget used up.
C30_Witness ==
    /\ call.op = "disconnect"
    /\ retries = MAX_RETRIES
    /\ exhausted
    /\ \E h \in Handles : sockets[h].code = 1006

====
